---- MODULE Spec2Model ----
(***************************************************************************)
(* A model of rsync_backup.py: the job runner (the __main__ loop over      *)
(* CONFIG) and doBackup, with the target directory, the stat directory,    *)
(* the clock and the rsync child process as its environment.               *)
(*                                                                         *)
(* Strings are sequences of one-character strings, so that the code's      *)
(* string operations (concatenation, indexing, substring test, ordering)   *)
(* are computed as Python computes them.                                   *)
(***************************************************************************)
EXTENDS Integers, Sequences, FiniteSets, TLC

(* ------------------------------ bounds -------------------------------- *)

\* The clock reading (seconds of the current minute) of the first run.
FirstTick == 11
\* The last clock reading a run may start at.
MaxTick == 13
\* How many chunks of output the rsync children write at most, all runs
\* taken together.
MaxOut == 1
\* How many times the drain loops may read end-of-stream before the child's
\* exit is seen, all runs taken together.
MaxSpin == 1

(* ------------------------------ strings ------------------------------- *)

\* An optional value is a sequence of length 0 (None) or 1.
None == << >>
Some(x) == << x >>

\* The characters the model uses, in their ASCII order.
Chars ==
    << "\n", "$", "*", "+", "-", ".", "/",
       "0", "1", "2", "3", "4", "5", "6", "7", "8", "9", "=", "_",
       "a", "b", "c", "d", "e", "f", "g", "h", "i", "j", "k", "l", "m",
       "n", "o", "p", "q", "r", "s", "t", "u", "v", "w", "x", "y", "z" >>

Ord(ch) == CHOOSE k \in 1..Len(Chars) : Chars[k] = ch

Digit(n) == Chars[Ord("0") + n]

MinOf(a, b) == IF a < b THEN a ELSE b

\* a < b for Python strings: the first differing character decides, and a
\* proper prefix is smaller.
StrLess(a, b) ==
    \E k \in 0..MinOf(Len(a), Len(b)) :
        /\ \A m \in 1..k : a[m] = b[m]
        /\ \/ k = Len(a) /\ k < Len(b)
           \/ k < Len(a) /\ k < Len(b) /\ Ord(a[k + 1]) < Ord(b[k + 1])

\* sub in s
Contains(sub, s) ==
    \E k \in 1..(Len(s) - Len(sub) + 1) : SubSeq(s, k, k + Len(sub) - 1) = sub

\* A variant that sorts in ascending order.
RECURSIVE SortedReverse_Ascending(_)
SortedReverse_Ascending(names) ==
    IF names = {} THEN << >>
    ELSE LET low == CHOOSE a \in names : \A b \in names \ {a} : StrLess(a, b)
         IN  << low >> \o SortedReverse_Ascending(names \ {low})

\* sorted(names, reverse=True), names being the distinct names of a listing.
RECURSIVE SortedReverse(_)
SortedReverse(names) ==
    IF names = {} THEN << >>
    ELSE LET top == CHOOSE a \in names : \A b \in names \ {a} : StrLess(b, a)
         IN  << top >> \o SortedReverse(names \ {top})

\* os.path.join(a, b) of posixpath.
PathJoin(a, b) ==
    IF Len(b) > 0 /\ b[1] = "/" THEN b
    ELSE IF Len(a) = 0 \/ a[Len(a)] = "/" THEN a \o b
    ELSE a \o << "/" >> \o b

Pad2(n) == << Digit(n \div 10), Digit(n % 10) >>

\* datetime.now().strftime('%Y-%m-%d_%H-%M-%S'), the clock being read as
\* tick seconds after 2024-01-01 00:00:00 (ticks stay below one hour).
Strftime(tick) ==
    << "2", "0", "2", "4", "-", "0", "1", "-", "0", "1", "_", "0", "0", "-" >>
        \o Pad2((tick \div 60) % 60) \o << "-" >> \o Pad2(tick % 60)

INCOMPLETE == << "i", "n", "c", "o", "m", "p", "l", "e", "t", "e" >>
LOGWORD == << "l", "o", "g" >>
SUFFIX_INCOMPLETE == << "_" >> \o INCOMPLETE
SUFFIX_LOG == << "." >> \o LOGWORD

\* The part of a path before its last "/" and the part after it.
LastSlash(path) ==
    CHOOSE k \in 0..Len(path) :
        /\ k > 0 => path[k] = "/"
        /\ \A m \in (k + 1)..Len(path) : path[m] # "/"
Dirname(path) == SubSeq(path, 1, LastSlash(path) - 1)
Basename(path) == SubSeq(path, LastSlash(path) + 1, Len(path))

(* --------------------------- configuration ---------------------------- *)

\* The job list: two jobs on one mounted drive; the first has a source
\* without the trailing "/" and an exclude file, the second has neither.
CONFIG ==
    << [ name |-> << "t", "1" >>,
         source |-> << "/", "s", "r", "c" >>,
         target |-> << "/", "d", "s", "t", "/", "j", "1" >>,
         mountpoint |-> << "/", "d", "s", "t" >>,
         excludeFrom |-> Some(<< "/", "x" >>),
         statdir |-> << "/", "s", "t", "a", "t", "s" >> ],
       [ name |-> << "t", "2" >>,
         source |-> << "/", "h", "/" >>,
         target |-> << "/", "d", "s", "t", "/", "j", "2" >>,
         mountpoint |-> << "/", "d", "s", "t" >>,
         excludeFrom |-> None,
         statdir |-> << "/", "s", "t", "a", "t", "s" >> ] >>

Jobs == 1..Len(CONFIG)

\* The job whose target directory is dir (0 when there is none).
TargetOf(dir) ==
    IF \E j \in Jobs : CONFIG[j].target = dir
    THEN CHOOSE j \in Jobs : CONFIG[j].target = dir
    ELSE 0

(* ---------------------------- file system ----------------------------- *)

Dir == [kind |-> "dir", data |-> << >>]
File(data) == [kind |-> "file", data |-> data]

EmptyDir == [n \in {} |-> Dir]

\* A directory listing with the entry name added or replaced.
WithEntry(d, name, e) ==
    [n \in DOMAIN d \cup {name} |-> IF n = name THEN e ELSE d[n]]

WithoutEntry(d, name) == [n \in DOMAIN d \ {name} |-> d[n]]

\* What the target of the first job may hold before the first run: nothing;
\* the snapshots of two earlier seconds with the log and an in-progress
\* directory of the later one; or in-progress directories that carry the
\* seconds of the coming runs.
PastTicks == (FirstTick - 2)..(FirstTick - 1)
RunTicks == FirstTick..MaxTick
InProgressName(stamp) == stamp \o SUFFIX_INCOMPLETE
LogName(stamp) == stamp \o SUFFIX_LOG
Snapshot(t) == Strftime(t)
InProgress(t) == InProgressName(Strftime(t))
LogOf(t) == LogName(Strftime(t))

PreEntry(name) == IF Contains(SUFFIX_LOG, name) THEN File(<< >>) ELSE Dir

PreNameSets ==
    { {},
      {Snapshot(t) : t \in PastTicks}
          \cup {LogOf(FirstTick - 1), InProgress(FirstTick - 1)},
      {InProgress(t) : t \in RunTicks} }

PreListings == {[n \in names |-> PreEntry(n)] : names \in PreNameSets}

(* --------------------------- rsync command ---------------------------- *)

RSYNC == << "/", "u", "s", "r", "/", "b", "i", "n", "/", "r", "s", "y", "n", "c" >>
ARCHIVE == << "-", "a" >>
VERBOSE == << "-", "v" >>
STATS == << "-", "-", "s", "t", "a", "t", "s" >>
DRYRUN == << "-", "n" >>
ONEFS == << "-", "x" >>
DELETE == << "-", "-", "d", "e", "l", "e", "t", "e" >>
DELETE_EXCLUDED == DELETE \o << "-", "e", "x", "c", "l", "u", "d", "e", "d" >>
EXCLUDE_FROM == << "-", "-", "e", "x", "c", "l", "u", "d", "e", "-", "f", "r", "o", "m", "=" >>
LINK_DEST == << "-", "-", "l", "i", "n", "k", "-", "d", "e", "s", "t", "=" >>

\* The fixed head of the parameter list.
FixedParams ==
    << RSYNC, ARCHIVE, VERBOSE, STATS, DRYRUN, ONEFS, DELETE, DELETE_EXCLUDED >>

\* p as doBackup builds it for job record c, the located olddir (an
\* optional path) and the in-progress path.
BuildParams(c, old, temp) ==
    FixedParams
        \o (IF c.excludeFrom # None THEN << EXCLUDE_FROM \o c.excludeFrom[1] >> ELSE << >>)
        \o (IF old # None THEN << LINK_DEST \o old[1] >> ELSE << >>)
        \o << c.source, temp >>

\* A variant that leaves the source as configured.
NormalizeSource_Never(source) == source

\* c['source'] after the normalisation at the head of doBackup.
NormalizeSource(source) ==
    IF source[Len(source)] # "/" THEN source \o << "/" >> ELSE source

\* A variant that skips the logs only.
FirstKept_LogsOnly(dirs) ==
    LET kept == {k \in 1..Len(dirs) : ~Contains(LOGWORD, dirs[k])}
    IN  IF kept = {} THEN None
        ELSE Some(dirs[CHOOSE k \in kept : \A m \in kept : k <= m])

\* The previous-snapshot locator: the first name of the listing, in
\* descending order, that contains neither 'incomplete' nor 'log'.
FirstKept(dirs) ==
    LET kept == {k \in 1..Len(dirs) :
                    ~Contains(INCOMPLETE, dirs[k]) /\ ~Contains(LOGWORD, dirs[k])}
    IN  IF kept = {} THEN None
        ELSE Some(dirs[CHOOSE k \in kept : \A m \in kept : k <= m])

FindOldDir(targetPath, names) ==
    LET found == FirstKept(SortedReverse(names))
    IN  IF found = None THEN None ELSE Some(PathJoin(targetPath, found[1]))

(* ------------------------- the rsync program -------------------------- *)

\* rsync makes no change to the destination when it is given -n.
IsDryRun(params) == \E k \in 1..Len(params) : params[k] = DRYRUN

\* The destination is the last positional parameter.
Destination(params) == params[Len(params)]

SyncExitCodes == {0, 23}
ListExitCodes == {0, 2}

\* What the child may write to its output: whole lines, and a last line
\* that lacks its newline.
WholeLine == << "s", "\n" >>
PartLine == << "e" >>

(* ------------------------------- state -------------------------------- *)

VARIABLES
    now,        \* the clock, in ticks
    fs,         \* fs[j]: the listing of job j's target directory
    statfs,     \* the listing of the stat directory
    env,        \* the state of the drive as the current job has found it
    proc,       \* "idle" or "running": whether the script is running
    status,     \* the exit status of the last run of the script (optional)
    config,     \* CONFIG as the running script holds it
    i,          \* the position of the for loop in config
    pc,         \* the position of doBackup
    date, target_temp, target, logfile,
    olddir, driveid, p,
    rsync_line, exitcode,
    child,      \* the rsync child: its state, its exit code, all it has written
    pipe,       \* the characters written by the child and not yet read
    flogOpen,   \* whether flog is open
    outLeft,    \* the output chunks the children may still write
    spinLeft,   \* the reads of end-of-stream before the exit still allowed
    run,        \* history: the current (or last) call of doBackup
    started,    \* history: the (job, date) of every call of doBackup
    synced,     \* history: the (job, date) of the calls whose rsync exited 0
    fs0,        \* history: fs before the first run
    crashed     \* history: the (job, date) of the calls the script was killed in

vars ==
    << now, fs, statfs, env, proc, status, config, i, pc, date, target_temp,
       target, logfile, olddir, driveid, p, rsync_line, exitcode, child, pipe,
       flogOpen, outLeft, spinLeft, run, started, synced, fs0, crashed >>

past == << started, synced, fs0, crashed >>
budget == << outLeft, spinLeft >>

locals ==
    << date, target_temp, target, logfile, olddir, driveid, p, rsync_line,
       exitcode, flogOpen >>

Envs ==
    [mounted : BOOLEAN, kind : {"missing", "file", "dir"}, writable : BOOLEAN,
     idfile : BOOLEAN, statdir : BOOLEAN]

NoEnv ==
    [mounted |-> FALSE, kind |-> "missing", writable |-> FALSE, idfile |-> FALSE,
     statdir |-> FALSE]
NoChild == [state |-> "none", code |-> None, out |-> << >>]
NoRun ==
    [job |-> 0, date |-> << >>, before |-> << >>, stats |-> EmptyDir, env |-> NoEnv,
     reached |-> "none", link |-> None, sync |-> None, list |-> None,
     end |-> "none", code |-> None]

\* The identifier the first line of <mountpoint>/.drive_id holds.
DRIVE_ID == << "d", "1" >>

\* The script is not running, the clock reads tick, the target of the
\* first job holds one of listings, and the children may write out chunks
\* and the drain loops read end-of-stream spin times before an exit.
InitWith(tick, listings, out, spin) ==
    /\ now = tick
    /\ fs \in {[j \in Jobs |-> IF j = 1 THEN d ELSE EmptyDir] : d \in listings}
    /\ statfs = EmptyDir
    /\ env = NoEnv
    /\ proc = "idle"
    /\ status = None
    /\ config = CONFIG
    /\ i = 0
    /\ pc = "none"
    /\ date = << >> /\ target_temp = << >> /\ target = << >> /\ logfile = << >>
    /\ olddir = None /\ driveid = None /\ p = << >>
    /\ rsync_line = << >> /\ exitcode = None
    /\ child = NoChild
    /\ pipe = << >>
    /\ flogOpen = FALSE
    /\ outLeft = out
    /\ spinLeft = spin
    /\ run = NoRun
    /\ started = {}
    /\ synced = {}
    /\ fs0 = fs
    /\ crashed = {}

Init == InitWith(FirstTick, PreListings, MaxOut, MaxSpin)

\* The record of the current call of doBackup with field f set to v.
Noted(f, v) == [run EXCEPT ![f] = v]

\* doBackup's frame is dropped: its locals no longer exist.
DropLocals ==
    /\ date' = << >> /\ target_temp' = << >> /\ target' = << >> /\ logfile' = << >>
    /\ olddir' = None /\ driveid' = None /\ p' = << >>
    /\ rsync_line' = << >> /\ exitcode' = None
    /\ flogOpen' = FALSE
    /\ env' = NoEnv

\* A variant in which a failed job only ends itself, and the for loop goes
\* on with the next job.
Terminate_Continue(code, how, h) ==
    /\ run' = [h EXCEPT !.end = how, !.code = Some(code)]
    /\ DropLocals
    /\ IF i < Len(config)
       THEN proc' = proc /\ status' = status /\ pc' = "start" /\ i' = i + 1
       ELSE proc' = "idle" /\ status' = Some(code) /\ pc' = "none" /\ i' = 0

\* The script ends with exit status code: sys.exit(code), an exception that
\* nothing catches (code 1), or the end of the module (code 0).
Terminate(code, how, h) ==
    /\ proc' = "idle"
    /\ status' = Some(code)
    /\ pc' = "none"
    /\ i' = 0
    /\ run' = [h EXCEPT !.end = how, !.code = Some(code)]
    /\ DropLocals

(* ------------------------------ __main__ ------------------------------ *)

\* The script is started: the for loop takes the first job.
Main ==
    /\ proc = "idle"
    /\ now <= MaxTick
    /\ proc' = "running"
    /\ config' = CONFIG
    /\ i' = 1
    /\ pc' = "start"
    /\ status' = None
    /\ run' = NoRun
    /\ UNCHANGED << now, fs, statfs, env, locals, child, pipe, budget, past >>

(* ------------------------------ doBackup ------------------------------ *)

\* Lines 63-71: the timestamp, the source normalised in place, the paths.
StartJob ==
    /\ proc = "running" /\ pc = "start"
    /\ now <= MaxTick
    /\ \E e \in Envs : ~e.writable /\ ~e.idfile /\ ~e.statdir /\ env' = e
    /\ now' = now + 1
    /\ date' = Strftime(now)
    /\ config' = [config EXCEPT ![i].source = NormalizeSource(@)]
    /\ target_temp' = PathJoin(config[i].target, Strftime(now) \o SUFFIX_INCOMPLETE)
    /\ target' = PathJoin(config[i].target, Strftime(now))
    /\ logfile' = PathJoin(config[i].target, Strftime(now) \o SUFFIX_LOG)
    /\ run' = [job |-> i, date |-> Strftime(now), before |-> fs, stats |-> statfs,
               env |-> env', reached |-> "start", link |-> None,
               sync |-> None, list |-> None, end |-> "running", code |-> None]
    /\ started' = started \cup {<< i, Strftime(now) >>}
    /\ UNCHANGED << synced, fs0, crashed >>
    /\ pc' = "mount"
    /\ UNCHANGED << fs, statfs, proc, status, i, olddir, driveid, p, rsync_line,
                    exitcode, child, pipe, flogOpen, budget >>

\* A variant with the test inverted.
NotMounted_Inverted(e) == e.mounted

\* Line 74: path.ismount(c['mountpoint']) is false.
NotMounted(e) == ~e.mounted

\* Lines 73-76: the mount check.
CheckMount ==
    /\ proc = "running" /\ pc = "mount"
    /\ IF NotMounted(env)
       THEN /\ Terminate(1, "exit", run)
            /\ UNCHANGED << now, fs, statfs, config, child, pipe, budget, past >>
       ELSE /\ pc' = "target"
            /\ UNCHANGED << now, fs, statfs, env, proc, status, config, i, locals,
                            child, pipe, budget, run, past >>

\* Lines 78-88: the target exists and is a directory, or the script exits;
\* a target that is not writable is only logged.
CheckTarget ==
    /\ proc = "running" /\ pc = "target"
    /\ IF env.kind = "missing"
       THEN /\ Terminate(2, "exit", run)
            /\ UNCHANGED << now, fs, statfs, config, child, pipe, budget, past >>
       ELSE IF env.kind # "dir"
       THEN /\ Terminate(2, "exit", run)
            /\ UNCHANGED << now, fs, statfs, config, child, pipe, budget, past >>
       ELSE /\ \E w \in BOOLEAN :
                /\ env' = [env EXCEPT !.writable = w]
                /\ run' = Noted("env", env')
            /\ pc' = "locate"
            /\ UNCHANGED << now, fs, statfs, proc, status, config, i, locals,
                            child, pipe, budget, past >>

\* The target directory a path lies in, and the path's name in it.
JobOf(path) == TargetOf(Dirname(path))

\* Lines 90-106: the most recent previous backup.
Locate ==
    /\ proc = "running" /\ pc = "locate"
    /\ olddir' = FindOldDir(config[i].target, DOMAIN fs[i])
    /\ pc' = "identify"
    /\ UNCHANGED << now, fs, statfs, env, proc, status, config, i, date,
                    target_temp, target, logfile, driveid, p, rsync_line,
                    exitcode, child, pipe, flogOpen, budget, run, past >>

\* Lines 108-115: the drive identifier, when <mountpoint>/.drive_id is a
\* readable file.
IdentifyDrive ==
    /\ proc = "running" /\ pc = "identify"
    /\ \E f \in BOOLEAN :
        /\ env' = [env EXCEPT !.idfile = f]
        /\ run' = Noted("env", env')
        /\ driveid' = IF f THEN Some(DRIVE_ID) ELSE None
    /\ pc' = "build"
    /\ UNCHANGED << now, fs, statfs, proc, status, config, i, date,
                    target_temp, target, logfile, olddir, p, rsync_line,
                    exitcode, child, pipe, flogOpen, budget, past >>

\* The --link-dest argument of a parameter list (optional).
LinkArg(params) ==
    LET at == {k \in 1..Len(params) :
                  /\ Len(params[k]) >= Len(LINK_DEST)
                  /\ SubSeq(params[k], 1, Len(LINK_DEST)) = LINK_DEST}
    IN  IF at = {} THEN None
        ELSE LET k == CHOOSE k \in at : TRUE
             IN  Some(SubSeq(params[k], Len(LINK_DEST) + 1, Len(params[k])))

\* Lines 117-139: the parameter list.
Build ==
    /\ proc = "running" /\ pc = "build"
    /\ p' = BuildParams(config[i], olddir, target_temp)
    /\ run' = [run EXCEPT !.reached = "build", !.link = LinkArg(p')]
    /\ pc' = "openlog"
    /\ UNCHANGED << now, fs, statfs, env, proc, status, config, i, date,
                    target_temp, target, logfile, olddir, driveid, rsync_line,
                    exitcode, child, pipe, flogOpen, budget, past >>

\* What flog.write("$%s\n" % (p)) writes: the format and its argument.
CmdLine(params) == [fmt |-> "$%s\n", arg |-> params]

\* The listing of a directory after data is appended to its file name.
Written(d, name, data) ==
    [d EXCEPT ![name] = File(Append(@.data, data))]

\* Lines 141-143: the log file is created (or truncated) and the command
\* line written; open() raises IOError in a target that is not writable.
OpenLog ==
    /\ proc = "running" /\ pc = "openlog"
    /\ IF ~env.writable
       THEN /\ Terminate(1, "exception", run)
            /\ UNCHANGED << now, fs, statfs, config, child, pipe, budget, past >>
       ELSE /\ fs' = [fs EXCEPT ![JobOf(logfile)] =
                        WithEntry(@, Basename(logfile), File(<< CmdLine(p) >>))]
            /\ flogOpen' = TRUE
            /\ run' = Noted("reached", "log")
            /\ pc' = "popen"
            /\ UNCHANGED << now, statfs, env, proc, status, config, i, date,
                            target_temp, target, logfile, olddir, driveid, p,
                            rsync_line, exitcode, child, pipe, budget, past >>

\* Lines 148-149: the child is started, its output a pipe.
Popen ==
    /\ proc = "running" /\ pc = "popen"
    /\ child' = [state |-> "running", code |-> None, out |-> << >>]
    /\ pipe' = << >>
    /\ run' = Noted("reached", "sync")
    /\ pc' = "readline"
    /\ UNCHANGED << now, fs, statfs, env, proc, status, config, i, locals,
                    budget, past >>

(* --------------------------- the rsync child -------------------------- *)

\* The child writes a chunk to its output.
ChildWrite ==
    /\ child.state = "running" /\ outLeft > 0
    /\ \E chunk \in {WholeLine, PartLine} :
        /\ pipe' = pipe \o chunk
        /\ child' = [child EXCEPT !.out = @ \o chunk]
    /\ outLeft' = outLeft - 1
    /\ UNCHANGED << now, fs, statfs, env, proc, status, config, i, pc, locals,
                    spinLeft, run, past >>

\* The child's output is closed: the reader meets end-of-stream after what
\* the pipe still holds.
ChildClose ==
    /\ child.state = "running"
    /\ child' = [child EXCEPT !.state = "closed"]
    /\ UNCHANGED << now, fs, statfs, env, proc, status, config, i, pc, locals,
                    pipe, budget, run, past >>

\* The listing of the destination's directory after rsync ended with code:
\* nothing changes under -n; otherwise the destination directory exists
\* after a success, and may exist after a failure.
RsyncEffect(params, code, made, d) ==
    IF IsDryRun(params) \/ ~(made \/ code = 0) THEN d
    ELSE WithEntry(d, Basename(Destination(params)), Dir)

\* The child ends: its exit code can be polled.
ChildExit ==
    /\ child.state = "closed"
    /\ \E code \in SyncExitCodes, made \in BOOLEAN :
        /\ child' = [child EXCEPT !.state = "exited", !.code = Some(code)]
        /\ fs' = [fs EXCEPT ![JobOf(Destination(p))] = RsyncEffect(p, code, made, @)]
    /\ UNCHANGED << now, statfs, env, proc, status, config, i, pc, locals, pipe,
                    budget, run, past >>

(* --------------------------- the drain loop --------------------------- *)

HasNewline(s) == \E k \in 1..Len(s) : s[k] = "\n"
FirstNewline(s) == CHOOSE k \in 1..Len(s) : s[k] = "\n" /\ \A m \in 1..(k - 1) : s[m] # "\n"

\* The lines the loop has written to the log so far.
LogData == fs[JobOf(logfile)][Basename(logfile)].data

\* Line 151: readline() returns the next line with its newline, or at
\* end-of-stream what is left, which may be nothing; otherwise it blocks.
ReadLine ==
    /\ proc = "running" /\ pc = "readline"
    /\ IF HasNewline(pipe)
       THEN /\ rsync_line' = SubSeq(pipe, 1, FirstNewline(pipe))
            /\ pipe' = SubSeq(pipe, FirstNewline(pipe) + 1, Len(pipe))
            /\ spinLeft' = spinLeft
       ELSE /\ child.state # "running"
            /\ rsync_line' = pipe
            /\ pipe' = << >>
            /\ IF child.state = "closed" /\ pipe = << >>
               THEN spinLeft > 0 /\ spinLeft' = spinLeft - 1
               ELSE spinLeft' = spinLeft
    /\ pc' = "poll"
    /\ UNCHANGED << now, fs, statfs, env, proc, status, config, i, date,
                    target_temp, target, logfile, olddir, driveid, p, exitcode,
                    child, flogOpen, outLeft, run, past >>

\* rsync_line[:-1]
DropLast(s) == SubSeq(s, 1, Len(s) - 1)

\* A variant that leaves the loop as soon as the child's exit is seen.
LoopEnds_OnExit(line, code) == code # None

\* Line 153: (not rsync_line) and (exitcode is not None)
LoopEnds(line, code) == line = << >> /\ code # None

\* Lines 152-157: poll(), then leave the loop or write the line to the log.
Poll ==
    /\ proc = "running" /\ pc = "poll"
    /\ exitcode' = child.code
    /\ IF LoopEnds(rsync_line, exitcode')
       THEN /\ pc' = "finish"
            /\ UNCHANGED << fs, rsync_line >>
       ELSE /\ rsync_line' = DropLast(rsync_line)
            /\ fs' = [fs EXCEPT ![JobOf(logfile)] =
                        Written(@, Basename(logfile), rsync_line' \o << "\n" >>)]
            /\ pc' = "readline"
    /\ UNCHANGED << now, statfs, env, proc, status, config, i, date, target_temp,
                    target, logfile, olddir, driveid, p, child, pipe, flogOpen,
                    budget, run, past >>

\* A variant that takes only a child killed by a signal for a failure.
SyncFailed_SignalOnly(code) == code < 0

\* Line 160: the exit code that makes the run fail.
SyncFailed(code) == code # 0

\* Lines 159-162: the log is closed; a failed rsync ends the script.
Finish ==
    /\ proc = "running" /\ pc = "finish"
    /\ child' = NoChild
    /\ UNCHANGED << started, fs0, crashed >>
    /\ synced' = IF exitcode[1] = 0 THEN synced \cup {<< run.job, run.date >>} ELSE synced
    /\ IF SyncFailed(exitcode[1])
       THEN /\ Terminate(10, "exit", Noted("sync", exitcode))
            /\ UNCHANGED << now, fs, statfs, config, pipe, budget >>
       ELSE /\ flogOpen' = FALSE
            /\ run' = Noted("sync", exitcode)
            /\ pc' = "rename"
            /\ UNCHANGED << now, fs, statfs, env, proc, status, config, i, date,
                            target_temp, target, logfile, olddir, driveid, p,
                            rsync_line, exitcode, pipe, budget >>

\* os.rename(src, dst) raises OSError when src is missing or dst exists
\* (a completed snapshot is no empty directory).
RenameRaises(d, src, dst) == src \notin DOMAIN d \/ dst \in DOMAIN d

Renamed(d, src, dst) == WithEntry(WithoutEntry(d, src), dst, d[src])

\* Lines 166-168: the in-progress directory gets its final name.
Rename ==
    /\ proc = "running" /\ pc = "rename"
    /\ LET j == JobOf(target_temp)
           src == Basename(target_temp)
           dst == Basename(target)
       IN  IF RenameRaises(fs[j], src, dst)
           THEN /\ Terminate(1, "exception", run)
                /\ UNCHANGED << now, fs, statfs, config, child, pipe, budget, past >>
           ELSE /\ fs' = [fs EXCEPT ![j] = Renamed(@, src, dst)]
                /\ run' = Noted("reached", "renamed")
                /\ pc' = "stat"
                /\ UNCHANGED << now, statfs, env, proc, status, config, i, locals,
                                child, pipe, budget, past >>

\* The name of the stat file: driveid+"_"+c['name'].
StatName(id, name) == id \o << "_" >> \o name

\* "/bin/ls -ldh "+c['target']+"*/" lists the target directory itself; what
\* it prints is decided by the directory's state.
Listing(d, code) == IF code = 0 THEN << DOMAIN d >> ELSE << >>

\* A variant in which doBackup stops at a failed listing command.
AfterList_StopOnFailure(code) == IF code = 0 THEN "return" ELSE "none"

\* Lines 179-181: where doBackup goes on after the listing command ended
\* with code: a failure is only logged, the stat file is closed and doBackup
\* returns.
AfterList(code) == "return"

\* Lines 170-181: with a drive identifier, the stat file is opened for
\* writing (open() raises IOError when the stat directory is missing or not
\* writable) and the listing command's output is sent to it; its failure is
\* only logged. Then doBackup returns.
Stat ==
    /\ proc = "running" /\ pc = "stat"
    /\ IF driveid = None
       THEN /\ run' = [run EXCEPT !.reached = "stat", !.end = "returned"]
            /\ pc' = "return"
            /\ UNCHANGED << now, fs, statfs, env, proc, status, config, i, locals,
                            child, pipe, budget, past >>
       ELSE \E ok \in BOOLEAN :
               LET e == [env EXCEPT !.statdir = ok]
               IN  IF ~ok
                   THEN /\ Terminate(1, "exception", Noted("env", e))
                        /\ UNCHANGED << now, fs, statfs, config, child, pipe,
                                        budget, past >>
                   ELSE \E code \in ListExitCodes :
                           /\ statfs' = WithEntry(statfs,
                                            StatName(driveid[1], config[i].name),
                                            File(Listing(fs[i], code)))
                           /\ env' = e
                           /\ run' = [run EXCEPT !.env = e, !.list = Some(code),
                                                 !.reached = "stat",
                                                 !.end = "returned"]
                           /\ pc' = AfterList(code)
                           /\ UNCHANGED << now, fs, proc, status, config, i, locals,
                                           child, pipe, budget, past >>

\* Lines 206-207: the for loop takes the next job, or the script ends.
NextJob ==
    /\ proc = "running" /\ pc = "return"
    /\ IF i < Len(config)
       THEN /\ i' = i + 1
            /\ pc' = "start"
            /\ DropLocals
            /\ UNCHANGED << now, fs, statfs, proc, status, config, child, pipe, budget, run, past >>
       ELSE /\ proc' = "idle"
            /\ status' = Some(0)
            /\ pc' = "none"
            /\ i' = 0
            /\ DropLocals
            /\ run' = [run EXCEPT !.code = Some(0)]
            /\ UNCHANGED << now, fs, statfs, config, child, pipe, budget, past >>

Next ==
    \/ Main
    \/ StartJob
    \/ CheckMount
    \/ CheckTarget
    \/ Locate
    \/ IdentifyDrive
    \/ Build
    \/ OpenLog
    \/ Popen
    \/ ChildWrite
    \/ ChildClose
    \/ ChildExit
    \/ ReadLine
    \/ Poll
    \/ Finish
    \/ Rename
    \/ Stat
    \/ NextJob

Spec == Init /\ [][Next]_vars

(* ------------------------- one run, more output ----------------------- *)

\* The clock is at its last reading, so that one call of doBackup follows;
\* its child may write one chunk more and its loop may read end-of-stream
\* once more than all the runs of Spec together.
InitDrain == InitWith(MaxTick, PreListings, MaxOut + 1, MaxSpin + 1)

\* The script's own steps are taken when they can be: readline() returns
\* when there is a line or the end of the stream, and poll() never blocks.
SpecDrain ==
    /\ InitDrain
    /\ [][Next]_vars
    /\ WF_vars(ReadLine)
    /\ WF_vars(Poll)

(* --------------------------- a killed script -------------------------- *)

\* The script is killed (a signal it cannot catch, a power cut) somewhere
\* between the opening of the log and the return of doBackup: nothing more
\* of it runs, and it leaves no exit status. A child that was running may
\* still have its effect on the destination.
Crash ==
    /\ proc = "running"
    /\ pc \in {"popen", "readline", "poll", "finish", "rename", "stat", "return"}
    /\ proc' = "idle"
    /\ status' = None
    /\ pc' = "none"
    /\ i' = 0
    /\ run' = Noted("end", "crash")
    /\ crashed' = crashed \cup {<< run.job, run.date >>}
    /\ DropLocals
    /\ child' = NoChild
    /\ pipe' = << >>
    /\ IF child.state \in {"running", "closed"}
       THEN \E code \in SyncExitCodes, made \in BOOLEAN :
               fs' = [fs EXCEPT ![JobOf(Destination(p))] = RsyncEffect(p, code, made, @)]
       ELSE fs' = fs
    /\ UNCHANGED << now, statfs, config, budget, started, synced, fs0 >>

NextCrash ==
    \/ Next
    \/ Crash

\* The clock has passed its first reading: the runs of two more seconds
\* follow, each of which may be killed.
InitCrash == InitWith(FirstTick + 1, PreListings, MaxOut, MaxSpin)

SpecCrash == InitCrash /\ [][NextCrash]_vars

(* ---------------------- the locator on any listing -------------------- *)

\* Entry names for the locator: the script's own names, and names that hold
\* 'log' or 'incomplete' somewhere, or only a part of them.
LocateNames ==
    { Snapshot(FirstTick - 2), Snapshot(FirstTick - 1),
      InProgress(FirstTick), LogOf(FirstTick),
      << "z", "l", "o", "g", "s" >>,
      INCOMPLETE \o << "d" >>,
      << "l", "o" >>,
      << "z" >> }

\* The first job has reached the locator, its target holding any of the
\* listings over LocateNames.
InitLocate ==
    /\ now = FirstTick + 1
    /\ \E names \in SUBSET LocateNames :
          fs = [j \in Jobs |-> IF j = 1 THEN [n \in names |-> PreEntry(n)] ELSE EmptyDir]
    /\ statfs = EmptyDir
    /\ env = [mounted |-> TRUE, kind |-> "dir", writable |-> TRUE, idfile |-> FALSE,
              statdir |-> FALSE]
    /\ proc = "running"
    /\ status = None
    /\ config = [CONFIG EXCEPT ![1].source = NormalizeSource(@)]
    /\ i = 1
    /\ pc = "locate"
    /\ date = Strftime(FirstTick)
    /\ target_temp = PathJoin(CONFIG[1].target, InProgress(FirstTick))
    /\ target = PathJoin(CONFIG[1].target, Snapshot(FirstTick))
    /\ logfile = PathJoin(CONFIG[1].target, LogOf(FirstTick))
    /\ olddir = None /\ driveid = None /\ p = << >>
    /\ rsync_line = << >> /\ exitcode = None
    /\ child = NoChild
    /\ pipe = << >>
    /\ flogOpen = FALSE
    /\ outLeft = MaxOut
    /\ spinLeft = MaxSpin
    /\ run = [job |-> 1, date |-> Strftime(FirstTick), before |-> fs, stats |-> statfs,
              env |-> env, reached |-> "start", link |-> None,
              sync |-> None, list |-> None, end |-> "running", code |-> None]
    /\ started = {<< 1, Strftime(FirstTick) >>}
    /\ synced = {}
    /\ fs0 = fs
    /\ crashed = {}

NextLocate == Locate

SpecLocate == InitLocate /\ [][NextLocate]_vars

(* ------------------------------ properties ---------------------------- *)

HasParam(params, a) == \E k \in 1..Len(params) : params[k] = a
StartsWith(s, pre) == Len(s) >= Len(pre) /\ SubSeq(s, 1, Len(pre)) = pre

\* The completed snapshots of a listing: the directories whose name has no
\* _incomplete suffix.
Completed(d) ==
    {n \in DOMAIN d : d[n].kind = "dir" /\ ~Contains(SUFFIX_INCOMPLETE, n)}

\* C3: when the rsync child exits nonzero the script ends with status 10
\* straight after the loop: nothing is renamed, the completed snapshots of
\* every target are those from before the run, an in-progress directory of
\* the run keeps its _incomplete name, the run's log file stays, and the
\* stat directory is untouched.
C3_FailedSyncNoRename ==
    (run.sync # None /\ run.sync[1] # 0) =>
        LET j == run.job
        IN  /\ proc = "idle" /\ status = Some(10)
            /\ run.reached = "sync"
            /\ \A k \in Jobs : Completed(fs[k]) = Completed(run.before[k])
            /\ run.date \notin DOMAIN fs[j]
            /\ InProgressName(run.date) \in DOMAIN run.before[j]
                  => InProgressName(run.date) \in DOMAIN fs[j]
            /\ LogName(run.date) \in DOMAIN fs[j]
            /\ fs[j][LogName(run.date)].kind = "file"
            /\ statfs = run.stats

\* C3's case: a run has ended on a failed rsync, its in-progress directory
\* in place.
C3_Witness ==
    /\ proc = "idle" /\ status = Some(10)
    /\ run.sync = Some(23)
    /\ InProgressName(run.date) \in DOMAIN fs[run.job]

\* C4: a run that finds its mountpoint not mounted ends at the mount check
\* with status 1: no child was started, no log opened, and the targets and
\* the stat directory are as they were when the run began.
C4_UnmountedNoEffect ==
    (run.job # 0 /\ ~run.env.mounted) =>
        /\ fs = run.before
        /\ statfs = run.stats
        /\ child = NoChild
        /\ ~flogOpen
        /\ run.reached = "start"
        /\ pc = "mount" \/ (proc = "idle" /\ status = Some(1))

\* C4's case: the script has ended at the mount check of a target that is
\* otherwise a writable directory holding entries.
C4_Witness ==
    /\ proc = "idle" /\ status = Some(1)
    /\ run.job # 0 /\ ~run.env.mounted /\ run.env.kind = "dir"
    /\ run.end = "exit"
    /\ DOMAIN fs[run.job] # {}

\* C9: the parameter list holds the fixed flags -a, -v, --stats, -x,
\* --delete and --delete-excluded, and no dry-run flag.
C9_DryRunOff ==
    p # << >> =>
        /\ \A f \in {ARCHIVE, VERBOSE, STATS, ONEFS, DELETE, DELETE_EXCLUDED} :
              HasParam(p, f)
        /\ ~HasParam(p, DRYRUN)

\* C10: the parameter list has a --link-dest argument exactly when a
\* previous snapshot was located, and it is target/<name of that snapshot>;
\* it has an --exclude-from argument exactly when the job has an exclude
\* file; its last two parameters are the source, ending with "/", and
\* target/<timestamp>_incomplete.
C10_CommandShape ==
    p # << >> =>
        LET c == CONFIG[i]
            n == Len(p)
            links == {k \in 1..n : StartsWith(p[k], LINK_DEST)}
            excludes == {k \in 1..n : StartsWith(p[k], EXCLUDE_FROM)}
        IN  /\ (links # {}) <=> (olddir # None)
            /\ Cardinality(links) <= 1
            /\ \A k \in links :
                  \E name \in DOMAIN run.before[i] :
                      /\ olddir = Some(c.target \o << "/" >> \o name)
                      /\ p[k] = LINK_DEST \o c.target \o << "/" >> \o name
            /\ (excludes # {}) <=> (c.excludeFrom # None)
            /\ \A k \in excludes : p[k] = EXCLUDE_FROM \o c.excludeFrom[1]
            /\ n >= 2
            /\ p[n - 1][Len(p[n - 1])] = "/"
            /\ p[n - 1] \in {c.source, c.source \o << "/" >>}
            /\ p[n] = c.target \o << "/" >> \o run.date \o SUFFIX_INCOMPLETE
            /\ links \cup excludes \subseteq 1..(n - 2)

\* C10's case: the list built for the job that has an exclude file and a
\* source without "/", with a previous snapshot located.
C10_Witness ==
    /\ p # << >> /\ i = 1
    /\ olddir # None
    /\ CONFIG[i].source[Len(CONFIG[i].source)] # "/"

IsKept(name) == ~Contains(INCOMPLETE, name) /\ ~Contains(LOGWORD, name)

\* The dates of the runs of job j before the current one.
EarlierRuns(j) == {e[2] : e \in {x \in started : x[1] = j /\ x[2] # run.date}}

AfterBuild == run.reached \in {"build", "log", "sync", "renamed", "stat"}

\* C1: on a target that was empty before the first run, with every earlier
\* run on it successful (its rsync exited 0), the first run builds a command
\* without --link-dest and each later run builds it with the snapshot of
\* the run before it as --link-dest.
C1_LinkChain ==
    LET j == run.job
    IN  ( /\ j # 0 /\ AfterBuild
          /\ DOMAIN fs0[j] = {}
          /\ \A d \in EarlierRuns(j) : << j, d >> \in synced )
        => IF EarlierRuns(j) = {} THEN run.link = None
           ELSE \E d \in EarlierRuns(j) :
                   /\ \A e \in EarlierRuns(j) : e = d \/ StrLess(e, d)
                   /\ run.link = Some(CONFIG[j].target \o << "/" >> \o d)

\* C2: once the script has ended, a directory with the bare timestamp of a
\* run exists in the run's target exactly when that run's rsync exited 0.
C2_FinalNameIffSynced ==
    proc = "idle" =>
        \A e \in started :
            (e[2] \in DOMAIN fs[e[1]] /\ fs[e[1]][e[2]].kind = "dir") <=> e \in synced

C6_LocatorFirstKept ==
    pc = "identify" =>
        LET kept == {n \in DOMAIN fs[i] : IsKept(n)}
        IN  IF kept = {} THEN olddir = None
            ELSE \E n \in kept :
                    /\ \A m \in kept : m = n \/ StrLess(m, n)
                    /\ olddir = Some(config[i].target \o << "/" >> \o n)

\* C6's case: the locator has chosen a name below names that hold 'log'
\* and 'incomplete'.
C6_Witness ==
    /\ pc = "identify" /\ olddir # None
    /\ \E n \in DOMAIN fs[i] : Contains(LOGWORD, n) /\ StrLess(Basename(olddir[1]), n)
    /\ \E n \in DOMAIN fs[i] : Contains(INCOMPLETE, n) /\ StrLess(Basename(olddir[1]), n)

\* The exit status C7 gives to a run: 1 for a mountpoint that is not
\* mounted, else 2 for a target that is missing or no directory, else 10
\* for a nonzero rsync exit, else 0.
C7_Status(r) ==
    IF ~r.env.mounted THEN 1
    ELSE IF r.env.kind # "dir" THEN 2
    ELSE IF r.sync # None /\ r.sync[1] # 0 THEN 10
    ELSE 0

\* C7: the script's exit status is the one the first failing condition
\* gives (stated for the runs that find their target writable, or end
\* before the test of it).
C7_ExitStatus ==
    (proc = "idle" /\ status # None /\ run.job # 0
        /\ (run.env.mounted /\ run.env.kind = "dir" => run.env.writable))
        => status = Some(C7_Status(run))

\* C8: the for loop takes the jobs one by one in the order of the list, the
\* next one only when doBackup has returned from the one before; a job that
\* ends the script (sys.exit or an exception) ends it at once with its own
\* exit status, and while the script is not running nothing touches the
\* targets or the stat directory and no job is begun.
C8_Sequential ==
    /\ [](proc = "idle" => pc = "none" /\ i = 0 /\ child = NoChild /\ ~flogOpen)
    /\ [][ /\ (proc = "idle" /\ proc' = "running") => (i' = 1 /\ pc' = "start")
           /\ (proc = "running" /\ proc' = "running" /\ i' # i) =>
                 /\ i' = i + 1 /\ pc = "return" /\ pc' = "start"
                 /\ run.job = i /\ run.end = "returned" /\ run.reached = "stat"
           /\ (started' # started) =>
                 /\ pc = "start" /\ proc = "running"
                 /\ started' = started \cup {<< i, run'.date >>} /\ run'.job = i
                 /\ run.job # 0 => run.end = "returned" /\ run.job = i - 1
           /\ (run.end = "running" /\ run'.end \in {"exit", "exception"}) =>
                 /\ proc' = "idle" /\ status' = run'.code /\ run'.job = i
           /\ (proc = "idle") =>
                 /\ fs' = fs /\ statfs' = statfs /\ started' = started
         ]_vars

\* C8's case: the second job has begun after doBackup returned from the
\* first, and has ended the script on a failed rsync.
C8_Witness ==
    /\ proc = "idle" /\ status = Some(10)
    /\ run.job = 2 /\ run.end = "exit"
    /\ \E e \in started : e[1] = 1 /\ e[2] \in DOMAIN fs[1] /\ StrLess(e[2], run.date)

\* The run's checks have passed: the mountpoint is mounted and the target
\* is a writable directory.
ChecksPassed(r) ==
    r.job # 0 /\ r.env.mounted /\ r.env.kind = "dir" /\ r.env.writable

\* The run is over: doBackup has returned or has ended the script.
RunOver == run.job # 0 /\ run.end # "running"

\* C11: a run without a readable <mountpoint>/.drive_id whose checks pass
\* and whose rsync exits 0 returns normally (the script's exit status is 0
\* when it was the last job), its target holds the completed snapshot and
\* the log, no listing command was run and the stat directory is as it was
\* before the run.
C11_NoDriveIdStillCompletes ==
    (ChecksPassed(run) /\ ~run.env.idfile /\ run.sync = Some(0) /\ RunOver) =>
        LET j == run.job
        IN  /\ run.end = "returned"
            /\ proc = "idle" => status = Some(0)
            /\ run.date \in DOMAIN fs[j] /\ fs[j][run.date].kind = "dir"
            /\ LogName(run.date) \in DOMAIN fs[j]
            /\ run.list = None
            /\ statfs = run.stats

\* C12: a run that finds its target mounted and a directory but not
\* writable is not ended by the check: it goes on to start the rsync child,
\* and when it ends the script it does so at the sync step with status 10.
C12_NotWritableReachesSync ==
    ( /\ run.job # 0 /\ run.env.mounted /\ run.env.kind = "dir"
      /\ ~run.env.writable /\ RunOver )
        => /\ run.reached \in {"sync", "renamed", "stat"}
           /\ run.end \in {"exit", "exception"} =>
                 run.sync # None /\ run.code = Some(10)

\* C13: when the listing command of a run has ended nonzero, the rsync of
\* the run had exited 0 and a drive identifier was read; doBackup returns
\* all the same, the snapshot stays under its final name, and the for loop
\* goes on: with the next job when there is one, else the script ends with
\* status 0.
C13_ListFailureNotFatal ==
    /\ [](LET j == run.job
          IN  (run.list # None /\ run.list[1] # 0) =>
                 /\ run.sync = Some(0) /\ run.env.idfile
                 /\ run.end = "returned" /\ run.reached = "stat"
                 /\ run.date \in DOMAIN fs[j] /\ fs[j][run.date].kind = "dir"
                 /\ InProgressName(run.date) \notin DOMAIN fs[j]
                 /\ \/ proc = "running" /\ pc = "return" /\ i = j
                    \/ proc = "running" /\ pc = "start" /\ i = j + 1
                    \/ proc = "idle" /\ j = Len(CONFIG) /\ status = Some(0))
    /\ [][ (run.list # None /\ run.list[1] # 0 /\ pc = "return") =>
             /\ fs' = fs /\ statfs' = statfs
             /\ IF i < Len(CONFIG)
                THEN proc' = "running" /\ i' = i + 1 /\ pc' = "start"
                ELSE proc' = "idle" /\ status' = Some(0)
         ]_vars

\* C13's case: the listing command of the first job has failed, its
\* snapshot is in place and the for loop has taken the second job.
C13_Witness ==
    /\ run.job = 1 /\ run.list = Some(2)
    /\ proc = "running" /\ i = 2 /\ pc = "start"
    /\ run.date \in DOMAIN fs[1]

\* C14: with the script killed at any point between the opening of the log
\* and the return of doBackup, a run killed before the rename leaves no
\* directory under its final name and the completed snapshots as they were;
\* a run killed after the rename leaves its snapshot under the final name,
\* and its rsync had exited 0; a final name of any run exists only when the
\* run's rsync had exited 0; and the --link-dest of every run names a
\* directory without the _incomplete suffix that was a snapshot before the
\* first run or is the snapshot of a run whose rsync had exited 0.
C14_CrashLeavesNoPartialBase ==
    /\ (run.end = "crash" /\ run.reached \in {"log", "sync"}) =>
          /\ run.date \notin DOMAIN fs[run.job]
          /\ \A k \in Jobs : Completed(fs[k]) = Completed(run.before[k])
    /\ (run.end = "crash" /\ run.reached \in {"renamed", "stat"}) =>
          /\ run.date \in DOMAIN fs[run.job]
          /\ fs[run.job][run.date].kind = "dir"
          /\ InProgressName(run.date) \notin DOMAIN fs[run.job]
          /\ << run.job, run.date >> \in synced
    /\ \A e \in started : e[2] \in DOMAIN fs[e[1]] => e \in synced
    /\ run.link # None =>
          LET j == run.job
              name == Basename(run.link[1])
          IN  /\ name \in DOMAIN fs[j] /\ fs[j][name].kind = "dir"
              /\ ~Contains(SUFFIX_INCOMPLETE, name)
              /\ \/ \E t \in PastTicks : name = Snapshot(t) /\ name \in DOMAIN fs0[j]
                 \/ << j, name >> \in synced

\* C14's case: a run has reached the sync step with, as --link-dest, the
\* snapshot of a run that was killed after its rename, an in-progress
\* directory with a greater name being skipped.
C14_Witness ==
    /\ run.link # None /\ run.reached = "sync"
    /\ << run.job, Basename(run.link[1]) >> \in crashed
    /\ \E n \in DOMAIN fs[run.job] :
          Contains(SUFFIX_INCOMPLETE, n) /\ StrLess(Basename(run.link[1]), n)

\* The lines of a child's output as the log should hold them: each with
\* its newline, a last line that lacks it included.
RECURSIVE Lines(_)
Lines(s) ==
    IF s = << >> THEN << >>
    ELSE IF HasNewline(s)
         THEN << SubSeq(s, 1, FirstNewline(s)) >>
                  \o Lines(SubSeq(s, FirstNewline(s) + 1, Len(s)))
         ELSE << s \o << "\n" >> >>

\* a is b with some of its elements left out.
RECURSIVE IsSubseq(_, _)
IsSubseq(a, b) ==
    IF a = << >> THEN TRUE
    ELSE IF b = << >> THEN FALSE
    ELSE IF Head(a) = Head(b) THEN IsSubseq(Tail(a), Tail(b))
    ELSE IsSubseq(a, Tail(b))

\* Every line of the output ends with a newline.
WholeLines(s) == s = << >> \/ s[Len(s)] = "\n"

\* C15: when the drain loop is left, the run's log holds the command line
\* first and after it every line the child has written, in the order of
\* writing.
C15_LogHoldsOutput ==
    pc = "finish" =>
        /\ LogData # << >> /\ Head(LogData) = CmdLine(p)
        /\ IsSubseq(Lines(child.out), Tail(LogData))

InLoop == pc \in {"readline", "poll"}

\* C16: the drain loop is left only by a poll() that follows a read of
\* end-of-stream and sees the child's exit, so after the loop the pipe is
\* empty and exitcode is the exit code of the child, and it is that code
\* which decides between sys.exit(10) and the rename; a loop whose child
\* has exited is left in the end; and as long as the child has not exited
\* the loop goes on (nothing else ends it).
C16_DrainLoopExit ==
    /\ [](pc = "finish" =>
            /\ rsync_line = << >> /\ pipe = << >>
            /\ child.state = "exited"
            /\ exitcode # None /\ exitcode = child.code)
    /\ [][ /\ InLoop =>
                \/ pc' \in {"readline", "poll"} /\ proc' = "running"
                \/ pc' = "finish" /\ child.state = "exited"
           /\ pc = "finish" =>
                /\ run'.sync = child.code
                /\ (child.code[1] # 0) <=> (proc' = "idle" /\ status' = Some(10))
                /\ (child.code[1] = 0) <=> (pc' = "rename")
         ]_vars
    /\ (InLoop /\ child.state = "exited") ~> (pc = "finish")

\* C16's case: the loop has been left after it had read end-of-stream
\* with the child's exit not yet to be seen, and had read output of the
\* child; the child has exited nonzero.
C16_Witness ==
    /\ pc = "finish"
    /\ child.out # << >> /\ spinLeft <= MaxSpin
    /\ exitcode = Some(23)

\* C17: the stat directory changes only in the stat step of a run whose
\* rsync exited 0, after the rename (the snapshot is under its final name,
\* the in-progress name is gone), and then only in the file
\* <driveid>_<name of the job>; when a run has ended the script (at the
\* mount check, the target checks, the sync step, or with an exception) the
\* stat directory is as it was before the run.
C17_StatFileOnlyAfterRename ==
    /\ [][ statfs' # statfs =>
             LET j == run.job
                 name == StatName(DRIVE_ID, CONFIG[j].name)
             IN  /\ pc = "stat" /\ run.sync = Some(0) /\ run.reached = "renamed"
                 /\ driveid = Some(DRIVE_ID)
                 /\ run.date \in DOMAIN fs[j]
                 /\ InProgressName(run.date) \notin DOMAIN fs[j]
                 /\ DOMAIN statfs' = DOMAIN statfs \cup {name}
                 /\ \A n \in DOMAIN statfs \ {name} : statfs'[n] = statfs[n]
         ]_vars
    /\ []((RunOver /\ run.end \in {"exit", "exception"}) => statfs = run.stats)

\* C17's case: the stat file of the first job, written by an earlier run,
\* has been overwritten by a later run of the job.
C17_Witness ==
    /\ run.job = 1 /\ run.reached = "stat" /\ run.list = Some(0)
    /\ StatName(DRIVE_ID, CONFIG[1].name) \in DOMAIN run.stats
    /\ statfs # run.stats

\* C18: the script ends with status 1 only when a job has found its
\* mountpoint not mounted, and a run that ends on an exception (the log
\* cannot be opened, the rename fails, the stat file cannot be opened) gives
\* the script none of the statuses 1, 2 and 10.
C18_StatusOneOnlyUnmounted ==
    (proc = "idle" /\ status # None /\ run.job # 0) =>
        /\ status = Some(1) => ~run.env.mounted
        /\ run.end = "exception" => status[1] \notin {1, 2, 10}

\* C19: during and after the drain loop the log holds, after the command
\* line, only lines the child has written (stated for a child whose every
\* line ends with a newline).
C19_NoExtraLines ==
    (pc \in {"readline", "poll", "finish"} /\ WholeLines(child.out)) =>
        IsSubseq(Tail(LogData), Lines(child.out))

====
